---- MODULE Spec2Model ----
(***************************************************************************)
(* X4 Mod Manager (src/main.py): the reconciliation of the managed mod     *)
(* folder MODS_DIR with the configured extensions directory.               *)
(*                                                                         *)
(* The state is the part of the filesystem and of config.json that the     *)
(* handlers read and write.  Every handler is one action; the pure scans   *)
(* (get_available_mods, get_installed_mods) are operators over an explicit *)
(* filesystem, so that they can be evaluated on the state before and after *)
(* an operation.                                                           *)
(*                                                                         *)
(* Environment assumptions (inputs that are enumerated, not code):         *)
(*  - folder names are drawn from NameOrder, extension roots from Roots;   *)
(*  - every entry of MODS_DIR is a real directory (no plain files, no      *)
(*    symlinks inside MODS_DIR), so an absent MODS_DIR behaves as an empty *)
(*    one and is not a separate state;                                     *)
(*  - the extension roots are directories disjoint from MODS_DIR;          *)
(*  - a symlink in an extension root points at MODS_DIR/<name>, at an      *)
(*    existing directory outside both trees (with a valid manifest), or at *)
(*    a path that does not exist.                                          *)
(***************************************************************************)
EXTENDS Naturals, Sequences, FiniteSets, TLC

VARIABLES mods, roots, ext, cfg, last, afterInstall, race

vars == <<mods, roots, ext, cfg, last, afterInstall, race>>

(* ------------------------------ bounds --------------------------------- *)

\* Largest number of entries present under the extension roots initially.
MaxForeign == 1

(* ------------------------------ domains -------------------------------- *)

\* The folder names, in the order iterdir() enumerates them.
NameOrder == <<"A", "B">>

Names == {NameOrder[i] : i \in 1..Len(NameOrder)}

\* The candidate extension roots: the hardcoded default and one other path.
DEFAULT_EXTENSIONS_DIR == "default"

Roots == {DEFAULT_EXTENSIONS_DIR, "custom"}

\* The managed root.
MODS_DIR == "mods"

\* config.json absent, or without the key "extensions_dir".
Unset == "<unset>"

\* config.json truncated by open(CONFIG_FILE, "w") and not written: json.load
\* raises on it.
Torn == "<torn>"

\* Symlink targets that are not MODS_DIR/<name>.
Outside == "<outside>"

Missing == "<missing>"

Targets == Names \cup {Outside, Missing}

\* A folder of MODS_DIR: absent, or a directory whose content.xml is valid,
\* unparseable, or not there.
ModKinds == {"absent", "valid", "corrupt", "nomanifest"}

\* An entry <root>/<name> of an extension root.
NoEntry == [kind |-> "none", man |-> "-", tgt |-> "-"]

Dir(man) == [kind |-> "dir", man |-> man, tgt |-> "-"]

Link(tgt) == [kind |-> "link", man |-> "-", tgt |-> tgt]

Entries ==
    {NoEntry} \cup {Dir(k) : k \in {"valid", "corrupt", "nomanifest"}}
              \cup {Link(t) : t \in Targets}

Cells == Roots \X Names

NoOp == [op |-> "none", name |-> "-", res |-> "-"]

\* The two callers whose requests may be in progress at the same time.
Procs == {"p1", "p2"}

\* A caller with no request in progress.
IdleProc == [op |-> "none", name |-> "-", pc |-> "idle", res |-> "-",
             fresh |-> FALSE, gone |-> FALSE]

(* ------------------------------ config --------------------------------- *)

\* load_config(): the persisted dict, or the default one.
load_config(c) == IF c = Unset THEN DEFAULT_EXTENSIONS_DIR ELSE c

\* get_extensions_dir(): read from the file on every call.
get_extensions_dir(c) == load_config(c)

(* --------------------------- path predicates --------------------------- *)

\* What a symlink target resolves to: does a directory exist there?
TargetExists(m, t) == IF t \in Names THEN m[t] # "absent" ELSE t = Outside

\* Path.exists(): follows symlinks, so a dangling symlink does not exist.
exists(m, en) ==
    CASE en.kind = "none" -> FALSE
      [] en.kind = "dir"  -> TRUE
      [] en.kind = "link" -> TargetExists(m, en.tgt)

\* Path.is_dir(): follows symlinks as well.
is_dir(m, en) ==
    CASE en.kind = "none" -> FALSE
      [] en.kind = "dir"  -> TRUE
      [] en.kind = "link" -> TargetExists(m, en.tgt)

\* Path.is_symlink(): the entry itself.
is_symlink(en) == en.kind = "link"

\* The manifest kind seen at <entry>/content.xml, through a symlink if any.
ManifestAt(m, en) ==
    CASE en.kind = "none" -> "nomanifest"
      [] en.kind = "dir"  -> en.man
      [] en.kind = "link" ->
            IF en.tgt \in Names THEN m[en.tgt]
            ELSE IF en.tgt = Outside THEN "valid" ELSE "nomanifest"

\* (folder / "content.xml").exists()
content_xml_exists(man) == man \in {"valid", "corrupt"}

\* parse_content_xml() that makes a record of whatever file is there.
parse_content_xml_AnyFile(man) == TRUE

\* parse_content_xml(): a record, or None for a manifest that does not parse.
parse_content_xml(man) == man = "valid"

\* folder.resolve().parent == MODS_DIR
ResolvesIntoMods(en) == en.kind = "link" /\ en.tgt \in Names

(* ------------------------------- scans --------------------------------- *)

\* The ModInfo of a managed folder.
ManagedInfo(m, e, c, X) ==
    LET en == e[<<get_extensions_dir(c), X>>]
        is_installed == exists(m, en)
    IN  [folder_name |-> X,
         source_path |-> <<MODS_DIR, X>>,
         is_managed |-> TRUE,
         is_installed |-> is_installed,
         is_symlink |-> IF is_installed THEN is_symlink(en) ELSE FALSE]

\* get_available_mods() that lists a folder without looking for a manifest.
AvailableHas_AnyFolder(m, X) == m[X] # "absent"

\* Does get_available_mods() list the folder?
AvailableHas(m, X) ==
    /\ m[X] # "absent"
    /\ content_xml_exists(m[X])
    /\ parse_content_xml(m[X])

get_available_mods(m, e, c) ==
    LET kept == SelectSeq(NameOrder, LAMBDA X : AvailableHas(m, X))
    IN  [i \in 1..Len(kept) |-> ManagedInfo(m, e, c, kept[i])]

\* The ModInfo of an entry of the extensions directory.
ExternalInfo(e, c, X) ==
    LET en == e[<<get_extensions_dir(c), X>>]
    IN  [folder_name |-> X,
         source_path |-> <<get_extensions_dir(c), X>>,
         is_managed |-> FALSE,
         is_installed |-> TRUE,
         is_symlink |-> is_symlink(en)]

\* get_installed_mods() without its two exclusion rules.
InstalledHas_NoExclusion(m, rts, e, c, X) ==
    LET en == e[<<get_extensions_dir(c), X>>]
    IN  /\ get_extensions_dir(c) \in rts
        /\ is_dir(m, en)
        /\ content_xml_exists(ManifestAt(m, en))
        /\ parse_content_xml(ManifestAt(m, en))

\* Does get_installed_mods() list the entry?
InstalledHas(m, rts, e, c, X) ==
    LET en == e[<<get_extensions_dir(c), X>>]
        managed_folders == {Y \in Names : m[Y] # "absent"}
    IN  /\ get_extensions_dir(c) \in rts
        /\ is_dir(m, en)
        /\ ~(is_symlink(en) /\ ResolvesIntoMods(en))
        /\ X \notin managed_folders
        /\ content_xml_exists(ManifestAt(m, en))
        /\ parse_content_xml(ManifestAt(m, en))

get_installed_mods(m, rts, e, c) ==
    LET kept == SelectSeq(NameOrder, LAMBDA X : InstalledHas(m, rts, e, c, X))
    IN  [i \in 1..Len(kept) |-> ExternalInfo(e, c, kept[i])]

\* list_mods(): both lists.  The handler reads the filesystem afresh and
\* writes nothing, so it is evaluated on the state it is called in.
list_mods(m, rts, e, c) ==
    [managed |-> get_available_mods(m, e, c),
     external |-> get_installed_mods(m, rts, e, c)]

(* ------------------------------ history -------------------------------- *)

\* last is the most recent call and the status it returned.  afterInstall
\* records that the call before it was a successful install of the same
\* folder (GET /api/mods in between changes nothing and is not recorded).
InstalledJustBefore(X) ==
    last = [op |-> "install", name |-> X, res |-> "success"]

(* ------------------------------ install -------------------------------- *)

\* os.symlink(): fails when the OS refuses it (fault), and with FileExistsError
\* when an entry (a dangling symlink) is already at ext_path.
SymlinkOutcome(en, fault) ==
    IF en.kind # "none" THEN "other" ELSE fault

\* install_result that checks the extensions directory before the mod folder.
install_result_ConfigFirst(m, rts, e, c, X, fault) ==
    LET en == e[<<get_extensions_dir(c), X>>]
    IN  IF get_extensions_dir(c) \notin rts THEN "InvalidConfig"
        ELSE IF m[X] = "absent" THEN "NotFound"
        ELSE IF exists(m, en)
             THEN IF is_symlink(en) THEN "already_installed" ELSE "Conflict"
        ELSE CASE SymlinkOutcome(en, fault) = "none"      -> "success"
               [] SymlinkOutcome(en, fault) = "privilege" -> "PermissionDenied"
               [] SymlinkOutcome(en, fault) = "other"     -> "IOError"

\* install_result that rejects every existing entry, a symlink included.
install_result_NoIdempotence(m, rts, e, c, X, fault) ==
    LET en == e[<<get_extensions_dir(c), X>>]
    IN  IF m[X] = "absent" THEN "NotFound"
        ELSE IF get_extensions_dir(c) \notin rts THEN "InvalidConfig"
        ELSE IF exists(m, en) THEN "Conflict"
        ELSE CASE SymlinkOutcome(en, fault) = "none"      -> "success"
               [] SymlinkOutcome(en, fault) = "privilege" -> "PermissionDenied"
               [] SymlinkOutcome(en, fault) = "other"     -> "IOError"

\* The status install_mod returns; fault is what the OS does to os.symlink().
\* "Unhandled" is an exception that leaves the handler (HTTP 500).
install_result(m, rts, e, c, X, fault) ==
    LET en == e[<<get_extensions_dir(c), X>>]
    IN  IF m[X] = "absent" THEN "NotFound"
        ELSE IF c = Torn THEN "Unhandled"
        ELSE IF get_extensions_dir(c) \notin rts THEN "InvalidConfig"
        ELSE IF exists(m, en)
             THEN IF is_symlink(en) THEN "already_installed" ELSE "Conflict"
        ELSE CASE SymlinkOutcome(en, fault) = "none"      -> "success"
               [] SymlinkOutcome(en, fault) = "privilege" -> "PermissionDenied"
               [] SymlinkOutcome(en, fault) = "other"     -> "IOError"

\* The extension roots after install_mod.
install_ext(m, rts, e, c, X, fault) ==
    IF install_result(m, rts, e, c, X, fault) = "success"
    THEN [e EXCEPT ![<<get_extensions_dir(c), X>>] = Link(X)]
    ELSE e

install_mod(X, fault) ==
    /\ ext' = install_ext(mods, roots, ext, cfg, X, fault)
    /\ last' = [op |-> "install", name |-> X,
                res |-> install_result(mods, roots, ext, cfg, X, fault)]
    /\ afterInstall' = InstalledJustBefore(X)
    /\ UNCHANGED <<mods, roots, cfg, race>>

(* ----------------------------- uninstall ------------------------------- *)

\* uninstall_result without the is_symlink() guard of line 238.
uninstall_result_NoGuard(m, e, c, X, unlinkOk) ==
    LET en == e[<<get_extensions_dir(c), X>>]
    IN  IF ~exists(m, en) THEN "not_installed"
        ELSE IF unlinkOk THEN "success" ELSE "IOError"

\* The status uninstall_mod returns; unlinkOk is what os.unlink() does.
uninstall_result(m, e, c, X, unlinkOk) ==
    LET en == e[<<get_extensions_dir(c), X>>]
    IN  IF c = Torn THEN "Unhandled"
        ELSE IF ~exists(m, en) THEN "not_installed"
        ELSE IF ~is_symlink(en) THEN "Refused"
        ELSE IF unlinkOk THEN "success" ELSE "IOError"

\* uninstall_mod that reports success without removing the symlink.
uninstall_ext_Keep(m, e, c, X, unlinkOk) == e

\* The extension roots after uninstall_mod.
uninstall_ext(m, e, c, X, unlinkOk) ==
    IF uninstall_result(m, e, c, X, unlinkOk) = "success"
    THEN [e EXCEPT ![<<get_extensions_dir(c), X>>] = NoEntry]
    ELSE e

\* uninstall_mod that removes the folder the symlink points to as well.
uninstall_mod_Recursive(X, unlinkOk) ==
    LET en == ext[<<get_extensions_dir(cfg), X>>]
    IN  /\ ext' = uninstall_ext(mods, ext, cfg, X, unlinkOk)
        /\ last' = [op |-> "uninstall", name |-> X,
                    res |-> uninstall_result(mods, ext, cfg, X, unlinkOk)]
        /\ afterInstall' = InstalledJustBefore(X)
        /\ mods' = IF /\ uninstall_result(mods, ext, cfg, X, unlinkOk) = "success"
                      /\ en.tgt \in Names
                   THEN [mods EXCEPT ![en.tgt] = "absent"]
                   ELSE mods
        /\ UNCHANGED <<roots, cfg, race>>

uninstall_mod(X, unlinkOk) ==
    /\ ext' = uninstall_ext(mods, ext, cfg, X, unlinkOk)
    /\ last' = [op |-> "uninstall", name |-> X,
                res |-> uninstall_result(mods, ext, cfg, X, unlinkOk)]
    /\ afterInstall' = InstalledJustBefore(X)
    /\ UNCHANGED <<mods, roots, cfg, race>>

(* ------------------------------- delete -------------------------------- *)

\* delete_mod that never uninstalls before removing the folder.
DeleteUnlinks_Never(m, e, c, X) == FALSE

\* delete_mod that removes whatever entry is at ext_path, a real directory
\* included.
DeleteUnlinks_AnyEntry(m, e, c, X) ==
    LET en == e[<<get_extensions_dir(c), X>>]
    IN  c # Torn /\ exists(m, en)

\* Does delete_mod call os.unlink(ext_path)?  (line 260)
DeleteUnlinks(m, e, c, X) ==
    LET en == e[<<get_extensions_dir(c), X>>]
    IN  c # Torn /\ exists(m, en) /\ is_symlink(en)

\* The status delete_mod returns.  os.unlink() at line 261 is outside the
\* try block: its OSError leaves the handler as an unhandled exception.
\* rmtree is "ok", "fail" (nothing removed) or "partial" (the manifest is
\* removed, the folder is left).
delete_result(m, e, c, X, unlinkOk, rmtree) ==
    IF m[X] = "absent" THEN "NotFound"
    ELSE IF c = Torn THEN "Unhandled"
    ELSE IF DeleteUnlinks(m, e, c, X) /\ ~unlinkOk THEN "Unhandled"
    ELSE IF rmtree = "ok" THEN "success" ELSE "IOError"

\* The extension roots after delete_mod.
delete_ext(m, e, c, X, unlinkOk, rmtree) ==
    IF /\ m[X] # "absent"
       /\ DeleteUnlinks(m, e, c, X)
       /\ unlinkOk
    THEN [e EXCEPT ![<<get_extensions_dir(c), X>>] = NoEntry]
    ELSE e

\* MODS_DIR after delete_mod.
delete_mods(m, e, c, X, unlinkOk, rmtree) ==
    CASE delete_result(m, e, c, X, unlinkOk, rmtree) = "success" ->
            [m EXCEPT ![X] = "absent"]
      [] delete_result(m, e, c, X, unlinkOk, rmtree) = "IOError"
         /\ rmtree = "partial" ->
            [m EXCEPT ![X] = "nomanifest"]
      [] OTHER -> m

delete_mod(X, unlinkOk, rmtree) ==
    /\ ext' = delete_ext(mods, ext, cfg, X, unlinkOk, rmtree)
    /\ mods' = delete_mods(mods, ext, cfg, X, unlinkOk, rmtree)
    /\ last' = [op |-> "delete", name |-> X,
                res |-> delete_result(mods, ext, cfg, X, unlinkOk, rmtree)]
    /\ afterInstall' = InstalledJustBefore(X)
    /\ UNCHANGED <<roots, cfg, race>>

(* ------------------------------ settings ------------------------------- *)

\* The request's "path" values: the roots, a path that is nowhere, the empty
\* string and a blank one.
Paths == Roots \cup {"nowhere", "", " "}

\* str.strip()
strip(p) == IF p = " " THEN "" ELSE p

\* The status set_extensions_dir returns; load_config() at line 284 raises on
\* a file that does not parse.
set_extensions_dir_result(rts, c, p) ==
    IF strip(p) = "" THEN "Empty"
    ELSE IF strip(p) \notin rts THEN "NoDir"
    ELSE IF c = Torn THEN "Unhandled"
    ELSE "success"

\* save_config(): the file after the call.
save_config(c, new_path) == new_path

\* set_extensions_dir that answers success without calling save_config.
set_extensions_dir_cfg_NoSave(rts, c, p) == c

\* config.json after set_extensions_dir.
set_extensions_dir_cfg(rts, c, p) ==
    IF set_extensions_dir_result(rts, c, p) = "success"
    THEN save_config(c, strip(p))
    ELSE c

set_extensions_dir(p) ==
    /\ cfg' = set_extensions_dir_cfg(roots, cfg, p)
    /\ last' = [op |-> "set_extensions_dir", name |-> p,
                res |-> set_extensions_dir_result(roots, cfg, p)]
    /\ afterInstall' = FALSE
    /\ UNCHANGED <<mods, roots, ext, race>>

\* set_extensions_dir whose save_config fails after open(CONFIG_FILE, "w")
\* has truncated the file (the write raises, or the process stops): the
\* exception leaves the handler and the file stays without its content.
set_extensions_dir_torn(p) ==
    /\ set_extensions_dir_result(roots, cfg, p) = "success"
    /\ cfg' = Torn
    /\ last' = [op |-> "set_extensions_dir", name |-> p, res |-> "Unhandled"]
    /\ afterInstall' = FALSE
    /\ UNCHANGED <<mods, roots, ext, race>>

(* --------------------------- specifications ---------------------------- *)

\* The number of entries present under the extension roots.
EntryCount(e) == Cardinality({cell \in Cells : e[cell].kind # "none"})

\* Entries exist only under roots that exist.
WellFormed(rts, e) == \A cell \in Cells : cell[1] \notin rts => e[cell] = NoEntry

\* The filesystem and the config file before the first request.
InitFS ==
    /\ mods \in [Names -> ModKinds]
    /\ roots \in SUBSET Roots
    /\ cfg \in {Unset} \cup Roots
    /\ ext \in [Cells -> Entries]
    /\ WellFormed(roots, ext)
    /\ EntryCount(ext) <= MaxForeign

Init ==
    /\ InitFS
    /\ last = NoOp
    /\ afterInstall = FALSE
    /\ race = [p \in Procs |-> IdleProc]

OsFaults == {"none", "privilege", "other"}

RmtreeOutcomes == {"ok", "fail", "partial"}

Next ==
    \/ \E X \in Names, fault \in OsFaults : install_mod(X, fault)
    \/ \E X \in Names, unlinkOk \in BOOLEAN : uninstall_mod(X, unlinkOk)
    \/ \E X \in Names, unlinkOk \in BOOLEAN, rmtree \in RmtreeOutcomes :
          delete_mod(X, unlinkOk, rmtree)
    \/ \E p \in Paths : set_extensions_dir(p)

Spec == Init /\ [][Next]_vars

\* The handlers with a config write that can fail part-way.
NextTorn ==
    \/ Next
    \/ \E p \in Paths : set_extensions_dir_torn(p)

SpecTorn == Init /\ [][NextTorn]_vars

\* The same handlers started from extension roots that hold no symlink.
InitClean == Init /\ \A cell \in Cells : ext[cell].kind # "link"

SpecClean == InitClean /\ [][Next]_vars

(* ------------------- two requests at the same time --------------------- *)

\* The handlers taken one filesystem call at a time, for two callers that
\* are served at once with nothing serialising them.  race[p] is the request
\* of caller p: its handler, its folder, the call it is about to make and
\* the status it returned; fresh records that nothing was at external/X when
\* the request was made, gone that the mod folder was no longer there when
\* install_mod called os.symlink().

Advance(p, pc) == race' = [race EXCEPT ![p].pc = pc]

Finish(p, res) == race' = [race EXCEPT ![p].pc = "done", ![p].res = res]

At(p, op, pc) == race[p].op = op /\ race[p].pc = pc

\* The entry at ext_path of caller p's request, as it is now.
RaceEntry(p) == ext[<<get_extensions_dir(cfg), race[p].name>>]

\* install_mod, line 204: mod_path.exists()
install_check_mod(p) ==
    /\ At(p, "install", "start")
    /\ IF mods[race[p].name] = "absent"
       THEN Finish(p, "NotFound") ELSE Advance(p, "root")
    /\ UNCHANGED <<mods, roots, ext, cfg, last, afterInstall>>

\* install_mod, lines 207-208: extensions_dir.exists()
install_check_root(p) ==
    /\ At(p, "install", "root")
    /\ IF get_extensions_dir(cfg) \notin roots
       THEN Finish(p, "InvalidConfig") ELSE Advance(p, "exists")
    /\ UNCHANGED <<mods, roots, ext, cfg, last, afterInstall>>

\* install_mod, line 213: ext_path.exists()
install_check_ext(p) ==
    /\ At(p, "install", "exists")
    /\ IF exists(mods, RaceEntry(p))
       THEN Advance(p, "is_symlink") ELSE Advance(p, "symlink")
    /\ UNCHANGED <<mods, roots, ext, cfg, last, afterInstall>>

\* install_mod, lines 214-217: ext_path.is_symlink()
install_check_symlink(p) ==
    /\ At(p, "install", "is_symlink")
    /\ IF is_symlink(RaceEntry(p))
       THEN Finish(p, "already_installed") ELSE Finish(p, "Conflict")
    /\ UNCHANGED <<mods, roots, ext, cfg, last, afterInstall>>

\* The symlink call that looks for the mod folder again and gives up.
install_symlink_result_Recheck(m, en, X, fault) ==
    IF m[X] = "absent" THEN "NotFound"
    ELSE CASE SymlinkOutcome(en, fault) = "none"      -> "success"
           [] SymlinkOutcome(en, fault) = "privilege" -> "PermissionDenied"
           [] SymlinkOutcome(en, fault) = "other"     -> "IOError"

\* The symlink call that takes an entry already there for its own.
install_symlink_result_Overwrite(m, en, X, fault) ==
    CASE fault = "none"      -> "success"
      [] fault = "privilege" -> "PermissionDenied"
      [] fault = "other"     -> "IOError"

\* install_mod, lines 219-226: the status after os.symlink(), which does not
\* look at its target m[X].
install_symlink_result(m, en, X, fault) ==
    CASE SymlinkOutcome(en, fault) = "none"      -> "success"
      [] SymlinkOutcome(en, fault) = "privilege" -> "PermissionDenied"
      [] SymlinkOutcome(en, fault) = "other"     -> "IOError"

\* install_mod, line 221: os.symlink(mod_path, ext_path)
install_symlink(p, fault) ==
    /\ At(p, "install", "symlink")
    /\ race' = [race EXCEPT
                  ![p].pc = "done",
                  ![p].res = install_symlink_result(mods, RaceEntry(p),
                                                    race[p].name, fault),
                  ![p].gone = (mods[race[p].name] = "absent")]
    /\ ext' = IF install_symlink_result(mods, RaceEntry(p), race[p].name, fault)
                 = "success"
              THEN [ext EXCEPT ![<<get_extensions_dir(cfg), race[p].name>>]
                                  = Link(race[p].name)]
              ELSE ext
    /\ UNCHANGED <<mods, roots, cfg, last, afterInstall>>

\* delete_mod, line 254: mod_path.exists()
delete_check_mod(p) ==
    /\ At(p, "delete", "start")
    /\ IF mods[race[p].name] = "absent"
       THEN Finish(p, "NotFound") ELSE Advance(p, "exists")
    /\ UNCHANGED <<mods, roots, ext, cfg, last, afterInstall>>

\* delete_mod, line 260: ext_path.exists()
delete_check_ext(p) ==
    /\ At(p, "delete", "exists")
    /\ IF exists(mods, RaceEntry(p))
       THEN Advance(p, "is_symlink") ELSE Advance(p, "rmtree")
    /\ UNCHANGED <<mods, roots, ext, cfg, last, afterInstall>>

\* delete_mod, line 260: ext_path.is_symlink()
delete_check_symlink(p) ==
    /\ At(p, "delete", "is_symlink")
    /\ IF is_symlink(RaceEntry(p))
       THEN Advance(p, "unlink") ELSE Advance(p, "rmtree")
    /\ UNCHANGED <<mods, roots, ext, cfg, last, afterInstall>>

\* delete_mod, line 261: os.unlink(ext_path), outside the try block; it
\* raises when the OS refuses it and when the entry is no symlink any more.
delete_unlink(p, unlinkOk) ==
    /\ At(p, "delete", "unlink")
    /\ IF unlinkOk /\ RaceEntry(p).kind = "link"
       THEN /\ Advance(p, "rmtree")
            /\ ext' = [ext EXCEPT ![<<get_extensions_dir(cfg), race[p].name>>]
                                     = NoEntry]
       ELSE /\ Finish(p, "Unhandled")
            /\ ext' = ext
    /\ UNCHANGED <<mods, roots, cfg, last, afterInstall>>

\* delete_mod, lines 264-268: shutil.rmtree(mod_path); a folder that is gone
\* by now raises inside the try block.
delete_rmtree(p, rmtree) ==
    /\ At(p, "delete", "rmtree")
    /\ IF mods[race[p].name] = "absent"
       THEN Finish(p, "IOError") /\ mods' = mods
       ELSE CASE rmtree = "ok" ->
                   /\ Finish(p, "success")
                   /\ mods' = [mods EXCEPT ![race[p].name] = "absent"]
              [] rmtree = "partial" ->
                   /\ Finish(p, "IOError")
                   /\ mods' = [mods EXCEPT ![race[p].name] = "nomanifest"]
              [] rmtree = "fail" ->
                   /\ Finish(p, "IOError")
                   /\ mods' = mods
    /\ UNCHANGED <<roots, ext, cfg, last, afterInstall>>

\* Two requests, install or delete, on the same folder are made at once.
InitRace ==
    /\ InitFS
    /\ last = NoOp
    /\ afterInstall = FALSE
    /\ \E X \in Names :
          race \in [Procs -> {[op |-> o, name |-> X, pc |-> "start", res |-> "-",
                               fresh |-> ext[<<get_extensions_dir(cfg), X>>]
                                            = NoEntry,
                               gone |-> FALSE]
                              : o \in {"install", "delete"}}]

NextRace ==
    \/ \E p \in Procs : install_check_mod(p)
    \/ \E p \in Procs : install_check_root(p)
    \/ \E p \in Procs : install_check_ext(p)
    \/ \E p \in Procs : install_check_symlink(p)
    \/ \E p \in Procs, fault \in OsFaults : install_symlink(p, fault)
    \/ \E p \in Procs : delete_check_mod(p)
    \/ \E p \in Procs : delete_check_ext(p)
    \/ \E p \in Procs : delete_check_symlink(p)
    \/ \E p \in Procs, unlinkOk \in BOOLEAN : delete_unlink(p, unlinkOk)
    \/ \E p \in Procs, rmtree \in RmtreeOutcomes : delete_rmtree(p, rmtree)

SpecRace == InitRace /\ [][NextRace]_vars

(* ------------------------- notation of the claims ---------------------- *)

\* external/X: the entry named X under the configured extensions directory.
ExtCell(c, X) == <<get_extensions_dir(c), X>>

\* How many records of a list carry the folder name X.
CountOf(list, X) == Cardinality({i \in 1..Len(list) : list[i].folder_name = X})

\* The records of a list that are not about X.
Others(list, X) == SelectSeq(list, LAMBDA r : r.folder_name # X)

\* The step just taken is a call of op on X.
Called(op, X) == last'.op = op /\ last'.name = X

(* -------------------------------- C1 ----------------------------------- *)

\* C1 as stated: a real directory at external/X is never removed, replaced or
\* modified; there install(X) returns Conflict and uninstall(X) Refused.
C1_RealDirUntouched_Original ==
    [][\A X \in Names :
          ext[ExtCell(cfg, X)].kind = "dir" =>
             /\ ext'[ExtCell(cfg, X)] = ext[ExtCell(cfg, X)]
             /\ Called("install", X) => last'.res = "Conflict"
             /\ Called("uninstall", X) => last'.res = "Refused"]_vars

\* C1 amended: a real directory under any extension root is never removed,
\* replaced or modified by any call; at external/X it makes uninstall(X)
\* return Refused and install(X) return Conflict when managed/X exists and
\* NotFound when it does not.
C1_RealDirUntouched ==
    [][/\ \A cell \in Cells : ext[cell].kind = "dir" => ext'[cell] = ext[cell]
       /\ \A X \in Names :
             ext[ExtCell(cfg, X)].kind = "dir" =>
                /\ Called("install", X) =>
                      last'.res = IF mods[X] = "absent" THEN "NotFound"
                                  ELSE "Conflict"
                /\ Called("uninstall", X) => last'.res = "Refused"]_vars

\* A delete succeeded and the real directory external/X is still there.
C1_Witness ==
    /\ last.op = "delete"
    /\ last.res = "success"
    /\ ext[ExtCell(cfg, last.name)].kind = "dir"

(* -------------------------------- C2 ----------------------------------- *)

\* managed/X exists, the external root exists, nothing is at external/X.
C2_Pre(X) ==
    /\ mods[X] # "absent"
    /\ get_extensions_dir(cfg) \in roots
    /\ ext[ExtCell(cfg, X)] = NoEntry

\* The second of two install(X) calls in succession returns
\* already_installed and changes nothing: external/X is the one symlink to
\* managed/X that the first call made.
C2_SecondCall ==
    \A X \in Names :
       (afterInstall' /\ Called("install", X)) =>
          /\ last'.res = "already_installed"
          /\ UNCHANGED <<mods, roots, ext, cfg>>
          /\ ext[ExtCell(cfg, X)] = Link(X)

\* C2 as stated: from such a state install(X) returns success, and a second
\* install(X) returns already_installed and leaves the state of the first.
C2_InstallTwice_Original ==
    [][/\ \A X \in Names :
             (C2_Pre(X) /\ Called("install", X)) =>
                /\ last'.res = "success"
                /\ ext' = [ext EXCEPT ![ExtCell(cfg, X)] = Link(X)]
       /\ C2_SecondCall]_vars

\* C2 amended: from such a state install(X) returns success when the
\* operating system creates the symlink, and PermissionDenied or IOError
\* with nothing changed when it does not; after a success a second
\* install(X) returns already_installed and leaves the state of the first.
C2_InstallTwice ==
    [][/\ \A X \in Names :
             (C2_Pre(X) /\ Called("install", X)) =>
                /\ last'.res \in {"success", "PermissionDenied", "IOError"}
                /\ last'.res = "success" =>
                      ext' = [ext EXCEPT ![ExtCell(cfg, X)] = Link(X)]
                /\ last'.res # "success" => ext' = ext
                /\ UNCHANGED <<mods, roots, cfg>>
       /\ C2_SecondCall]_vars

\* install(X) succeeded and the install(X) right after it has returned.
C2_Witness ==
    /\ afterInstall
    /\ last.op = "install"
    /\ last.res = "already_installed"
    /\ ext[ExtCell(cfg, last.name)] = Link(last.name)

(* -------------------------------- C3 ----------------------------------- *)

\* C3: a managed mod X with an entry at external/X is reported exactly once,
\* as a managed record with is_installed, and never in the external list.
C3_Dedup ==
    \A X \in Names :
       LET lists == list_mods(mods, roots, ext, cfg)
       IN  (AvailableHas(mods, X) /\ ext[ExtCell(cfg, X)].kind # "none") =>
              /\ CountOf(lists.managed, X) = 1
              /\ CountOf(lists.external, X) = 0
              /\ \A i \in 1..Len(lists.managed) :
                    lists.managed[i].folder_name = X =>
                       lists.managed[i].is_installed

(* -------------------------------- C4 ----------------------------------- *)

\* C4: started without symlinks, every symlink under an extension root
\* points at a managed folder that exists.
C4_NoOrphan ==
    \A cell \in Cells :
       ext[cell].kind = "link" => TargetExists(mods, ext[cell].tgt)

(* -------------------------------- C5 ----------------------------------- *)

\* C5: install(X) returns NotFound when managed/X is absent, else
\* InvalidConfig when the external root is absent, else Conflict when a
\* non-symlink entry is at external/X; a rejected install changes nothing.
C5_InstallPreconditions ==
    [][\A X \in Names :
          Called("install", X) =>
             /\ mods[X] = "absent" => last'.res = "NotFound"
             /\ (mods[X] # "absent" /\ get_extensions_dir(cfg) \notin roots) =>
                   last'.res = "InvalidConfig"
             /\ (/\ mods[X] # "absent"
                 /\ get_extensions_dir(cfg) \in roots
                 /\ ext[ExtCell(cfg, X)].kind = "dir") =>
                   last'.res = "Conflict"
             /\ last'.res \in {"NotFound", "InvalidConfig", "Conflict"} =>
                   UNCHANGED <<mods, roots, ext, cfg>>]_vars

\* install returned NotFound although the external root is absent as well.
C5_Witness ==
    /\ last.op = "install"
    /\ last.res = "NotFound"
    /\ get_extensions_dir(cfg) \notin roots

(* -------------------------------- C6 ----------------------------------- *)

\* C6: when delete(X) finds managed/X and a symlink at external/X and the
\* symlink is still there afterwards (the unlink failed), the delete went on
\* to remove managed/X: the failure is not the result of the operation.
C6_BestEffortUnlink ==
    [][\A X \in Names :
          (/\ Called("delete", X)
           /\ mods[X] # "absent"
           /\ DeleteUnlinks(mods, ext, cfg, X)
           /\ ext'[ExtCell(cfg, X)] = ext[ExtCell(cfg, X)]) =>
             /\ last'.res \in {"success", "IOError"}
             /\ last'.res = "success" => mods'[X] = "absent"]_vars

(* -------------------------------- C7 ----------------------------------- *)

\* listMods reports X as a managed mod that is installed.
ReportedInstalled(m, e, c, X) ==
    AvailableHas(m, X) /\ ManagedInfo(m, e, c, X).is_installed

\* After the step X is in neither list.
GoneFromLists(X) ==
    /\ CountOf(list_mods(mods', roots', ext', cfg').managed, X) = 0
    /\ CountOf(list_mods(mods', roots', ext', cfg').external, X) = 0

\* C7 as stated: after a successful delete of a managed mod reported as
\* installed (symlink or real directory) X is in neither list; a symlink
\* and the managed folder are gone.
C7_DeleteInstalled_Original ==
    [][\A X \in Names :
          (/\ Called("delete", X)
           /\ last'.res = "success"
           /\ ReportedInstalled(mods, ext, cfg, X)) =>
             /\ GoneFromLists(X)
             /\ is_symlink(ext[ExtCell(cfg, X)]) =>
                   /\ ext'[ExtCell(cfg, X)] = NoEntry
                   /\ mods'[X] = "absent"]_vars

\* C7 amended: after a successful delete of a managed mod reported as
\* installed the managed folder is gone and X is not in the managed list;
\* when external/X was a symlink it is gone too and X is in neither list;
\* when external/X was a real directory it is left as it was and X is in
\* the external list exactly when that directory has a valid manifest.
C7_DeleteInstalled ==
    [][\A X \in Names :
          (/\ Called("delete", X)
           /\ last'.res = "success"
           /\ ReportedInstalled(mods, ext, cfg, X)) =>
             /\ mods'[X] = "absent"
             /\ CountOf(list_mods(mods', roots', ext', cfg').managed, X) = 0
             /\ is_symlink(ext[ExtCell(cfg, X)]) =>
                   ext'[ExtCell(cfg, X)] = NoEntry /\ GoneFromLists(X)
             /\ ~is_symlink(ext[ExtCell(cfg, X)]) =>
                   /\ ext'[ExtCell(cfg, X)] = ext[ExtCell(cfg, X)]
                   /\ CountOf(list_mods(mods', roots', ext', cfg').external, X)
                         = IF ext[ExtCell(cfg, X)].man = "valid" THEN 1 ELSE 0]_vars

\* A mod was installed and then deleted: symlink and folder are both gone.
C7_Witness ==
    /\ afterInstall
    /\ last.op = "delete"
    /\ last.res = "success"
    /\ ext[ExtCell(cfg, last.name)] = NoEntry
    /\ mods[last.name] = "absent"

(* -------------------------------- C8 ----------------------------------- *)

\* C8: uninstall(X) returns not_installed exactly when there is no entry at
\* external/X (a dangling symlink is an entry) and then changes nothing;
\* with an entry it returns Refused for a real directory or removes the
\* symlink (or reports the IOError of the unlink).
C8_NotInstalledIffNoEntry ==
    [][\A X \in Names :
          Called("uninstall", X) =>
             /\ last'.res = "not_installed" <=> ext[ExtCell(cfg, X)].kind = "none"
             /\ last'.res = "not_installed" => UNCHANGED <<mods, roots, ext, cfg>>
             /\ ext[ExtCell(cfg, X)].kind = "dir" => last'.res = "Refused"
             /\ ext[ExtCell(cfg, X)].kind = "link" =>
                   \/ ext'[ExtCell(cfg, X)] = NoEntry
                   \/ last'.res = "IOError"]_vars

(* -------------------------------- C9 ----------------------------------- *)

\* C9: a managed record has is_installed exactly when an entry of its name
\* is under the external root (a dangling symlink is an entry), and
\* is_symlink only with is_installed.
C9_InstalledIffEntry ==
    LET managed == get_available_mods(mods, ext, cfg)
    IN  \A i \in 1..Len(managed) :
           /\ managed[i].is_installed <=>
                 ext[ExtCell(cfg, managed[i].folder_name)].kind # "none"
           /\ managed[i].is_symlink => managed[i].is_installed

(* -------------------------------- C10 ---------------------------------- *)

\* X is a managed mod with a valid manifest and nothing is at external/X.
C10_Pre(X) == AvailableHas(mods, X) /\ ext[ExtCell(cfg, X)] = NoEntry

\* The records of the other mods are the same before and after the step.
OthersSame(X) ==
    /\ Others(list_mods(mods', roots', ext', cfg').managed, X)
          = Others(list_mods(mods, roots, ext, cfg).managed, X)
    /\ Others(list_mods(mods', roots', ext', cfg').external, X)
          = Others(list_mods(mods, roots, ext, cfg).external, X)

\* The managed record of X after the step.
RecordAfter(X) == ManagedInfo(mods', ext', cfg', X)

\* C10 as stated: install(X) makes the record of X installed and a symlink,
\* the uninstall(X) after it makes it neither, the other records stay.
C10_RoundTrip_Original ==
    [][\A X \in Names :
          /\ (C10_Pre(X) /\ Called("install", X)) =>
                /\ RecordAfter(X).is_installed
                /\ RecordAfter(X).is_symlink
                /\ OthersSame(X)
          /\ (afterInstall' /\ Called("uninstall", X) /\ AvailableHas(mods, X)) =>
                /\ ~RecordAfter(X).is_installed
                /\ ~RecordAfter(X).is_symlink
                /\ OthersSame(X)]_vars

\* C10 amended: when the external root exists and the operating system
\* carries out the symlink creation and its removal, install(X) makes the
\* record of X installed and a symlink and the uninstall(X) after it makes
\* it neither; the other records stay the same throughout.  Without the
\* external root install(X) returns InvalidConfig; a call the operating
\* system refuses returns PermissionDenied or IOError; both change nothing.
C10_RoundTrip ==
    [][\A X \in Names :
          /\ (C10_Pre(X) /\ Called("install", X)) =>
                /\ OthersSame(X)
                /\ AvailableHas(mods', X)
                /\ IF get_extensions_dir(cfg) \notin roots
                   THEN last'.res = "InvalidConfig"
                   ELSE last'.res \in {"success", "PermissionDenied", "IOError"}
                /\ last'.res = "success" =>
                      RecordAfter(X).is_installed /\ RecordAfter(X).is_symlink
                /\ last'.res # "success" =>
                      UNCHANGED <<mods, roots, ext, cfg>>
          /\ (afterInstall' /\ Called("uninstall", X) /\ AvailableHas(mods, X)) =>
                /\ OthersSame(X)
                /\ AvailableHas(mods', X)
                /\ last'.res \in {"success", "IOError"}
                /\ last'.res = "success" =>
                      /\ ~RecordAfter(X).is_installed
                      /\ ~RecordAfter(X).is_symlink
                      /\ ext' = [ext EXCEPT ![ExtCell(cfg, X)] = NoEntry]
                /\ last'.res # "success" =>
                      UNCHANGED <<mods, roots, ext, cfg>>]_vars

\* install(X) succeeded, the uninstall(X) after it succeeded, and the
\* record of X is back to not installed.
C10_Witness ==
    /\ afterInstall
    /\ last.op = "uninstall"
    /\ last.res = "success"
    /\ AvailableHas(mods, last.name)
    /\ ~ManagedInfo(mods, ext, cfg, last.name).is_installed

(* -------------------------------- C11 ---------------------------------- *)

\* C11: at every point config.json holds a complete value (or is absent):
\* load_config never meets an empty or partly written file.
C11_ConfigAllOrNothing == cfg \in {Unset} \cup Roots

(* -------------------------------- C12 ---------------------------------- *)

\* C12: install, uninstall and delete never write the setting; a rejected
\* settings-update leaves it; a successful one to P makes P the directory
\* the next calls read, so that an install puts its symlink under P; without
\* a persisted value the default path is read.
C12_ConfigWrittenOnlyBySettings ==
    [][/\ last'.op \in {"install", "uninstall", "delete"} => cfg' = cfg
       /\ \A p \in Paths :
             Called("set_extensions_dir", p) =>
                /\ last'.res \in {"Empty", "NoDir"} => cfg' = cfg
                /\ (strip(p) = "" \/ strip(p) \notin roots) =>
                      last'.res \in {"Empty", "NoDir"}
                /\ last'.res = "success" => get_extensions_dir(cfg') = strip(p)
       /\ \A X \in Names :
             (Called("install", X) /\ last'.res = "success") =>
                ext' = [ext EXCEPT ![<<IF cfg = Unset THEN DEFAULT_EXTENSIONS_DIR
                                       ELSE cfg, X>>] = Link(X)]]_vars

\* A settings-update to a directory other than the default has succeeded and
\* that directory is the one now read.
C12_Witness ==
    /\ last = [op |-> "set_extensions_dir", name |-> "custom", res |-> "success"]
    /\ get_extensions_dir(cfg) = "custom"

(* ------------------------------ C13 ------------------------------------ *)

\* C13: install(X) and delete(X) run at once, step by step, with nothing
\* serialising them.  When delete removes managed/X after install found it
\* and before install creates the symlink, install does not notice: it never
\* answers NotFound, and when the OS creates the symlink install reports
\* success while external/X is a symlink to the managed/X that is gone.
C13_InstallDeleteRace ==
    \A p \in Procs :
       (race[p].op = "install" /\ race[p].pc = "done" /\ race[p].gone) =>
          /\ race[p].res \in {"success", "PermissionDenied", "IOError"}
          /\ race[p].res = "success" =>
                /\ RaceEntry(p) = Link(race[p].name)
                /\ mods[race[p].name] = "absent"
                /\ ~exists(mods, RaceEntry(p))

\* Both requests are over: delete removed managed/X between install's check
\* and its symlink, both reported success, and the symlink is left dangling.
C13_Witness ==
    \E p, q \in Procs :
       /\ race[p].op = "install" /\ race[p].pc = "done"
       /\ race[p].res = "success" /\ race[p].gone
       /\ race[q].op = "delete" /\ race[q].pc = "done"
       /\ race[q].res = "success"
       /\ RaceEntry(p) = Link(race[p].name)
       /\ mods[race[p].name] = "absent"

(* ------------------------------ C17 ------------------------------------ *)

\* Two install(X) requests made at once with managed/X present, the
\* extensions directory present and nothing at external/X, both over.
C17_Pre ==
    /\ \A p \in Procs :
          /\ race[p].op = "install" /\ race[p].pc = "done" /\ race[p].fresh
          /\ mods[race[p].name] # "absent"
    /\ get_extensions_dir(cfg) \in roots

SuccessCount == Cardinality({p \in Procs : race[p].res = "success"})

\* C17 as stated: at most one call returns success, the other returns
\* already_installed or IOError, and external/X ends as a symlink to
\* managed/X.
C17_ConcurrentInstall_Original ==
    C17_Pre =>
       /\ SuccessCount <= 1
       /\ \E p \in Procs :
             /\ race[p].res = "success"
             /\ \A q \in Procs \ {p} :
                   race[q].res \in {"already_installed", "IOError"}
       /\ \A p \in Procs : RaceEntry(p) = Link(race[p].name)

\* C17: of two install(X) calls made at once on a present managed/X with
\* nothing at external/X, at most one returns success; a call that does not
\* returns already_installed, IOError or PermissionDenied; and external/X
\* ends as a symlink to managed/X exactly when a call returned success, and
\* stays empty otherwise.
C17_ConcurrentInstall ==
    C17_Pre =>
       /\ SuccessCount <= 1
       /\ \A p \in Procs :
             /\ race[p].res \in {"success", "already_installed", "IOError",
                                 "PermissionDenied"}
             /\ RaceEntry(p) = IF SuccessCount = 1
                              THEN Link(race[p].name) ELSE NoEntry

\* Both calls passed the existence check before either created the symlink:
\* one succeeds and the other fails on the entry that is now there.
C17_Witness ==
    /\ C17_Pre
    /\ \E p, q \in Procs :
          /\ race[p].res = "success"
          /\ race[q].res = "IOError"
          /\ RaceEntry(p) = Link(race[p].name)

(* ------------------------------ C14 ------------------------------------ *)

\* C14: uninstall(X) removes the link entry only and never the link target:
\* whatever it returns (success, not_installed, Refused, IOError), the
\* folders under the managed root and their contents are the same after the
\* call as before it.
C14_UninstallKeepsTarget ==
    [][\A X \in Names :
          Called("uninstall", X) =>
             /\ last'.res \in {"success", "not_installed", "Refused", "IOError"}
             /\ mods' = mods]_vars

\* X was installed and then uninstalled; its managed folder is still there.
C14_Witness ==
    \E X \in Names :
       /\ last = [op |-> "uninstall", name |-> X, res |-> "success"]
       /\ afterInstall
       /\ mods[X] = "valid"
       /\ ext[ExtCell(cfg, X)] = NoEntry

(* ------------------------------ C15 ------------------------------------ *)

\* The immediate subdirectories of the managed root.
Subdirs == {X \in Names : mods[X] # "absent"}

\* Those of them with no manifest file.
LackManifest == {X \in Subdirs : ~content_xml_exists(mods[X])}

\* Those of them whose manifest file parses.
ParsedManifest == {X \in Subdirs : mods[X] = "valid"}

ManagedList == list_mods(mods, roots, ext, cfg).managed

\* C15 as stated: one managed record per subdirectory that contains a
\* manifest file, none for one that lacks it: N - M records.
C15_ManagedCount_Original ==
    /\ \A X \in Names :
          CountOf(ManagedList, X) = IF X \in Subdirs \ LackManifest THEN 1 ELSE 0
    /\ Len(ManagedList) = Cardinality(Subdirs) - Cardinality(LackManifest)

\* C15: the managed list has exactly one record per immediate subdirectory
\* of the managed root whose manifest file is there and parses, and none
\* for a subdirectory without a manifest file or with a manifest that does
\* not parse: with N subdirectories, M without a manifest file and K with an
\* unparseable one, N - M - K records.
C15_ManagedCount ==
    /\ \A X \in Names :
          CountOf(ManagedList, X) = IF X \in ParsedManifest THEN 1 ELSE 0
    /\ Len(ManagedList) = Cardinality(Subdirs) - Cardinality(LackManifest)
                             - Cardinality(Subdirs \ (LackManifest \cup ParsedManifest))

\* One folder with a manifest and one without: one record.
C15_Witness ==
    /\ Cardinality(Subdirs) = 2
    /\ Cardinality(LackManifest) = 1
    /\ Len(ManagedList) = 1

(* ------------------------------ C16 ------------------------------------ *)

\* The managed folders and the real directories of the extension roots
\* whose manifest does not parse.
CorruptManaged == {X \in Names : mods[X] = "corrupt"}

CorruptExternal == {cell \in Cells : ext[cell] = Dir("corrupt")}

\* The filesystem without the corrupt folder.
ModsWithout(X) == [mods EXCEPT ![X] = "absent"]

ExtWithout(cell) == [ext EXCEPT ![cell] = NoEntry]

\* The folder names whose entry in the extensions directory is a symlink to
\* the managed folder X.
LinkedTo(X) ==
    {Y \in Names : ext[<<get_extensions_dir(cfg), Y>>] = Link(X)}

\* The records of a list for folder names outside S.
NotNamed(list, S) == SelectSeq(list, LAMBDA r : r.folder_name \notin S)

\* The folder with the unparseable manifest is in neither list.
CorruptOmitted ==
    /\ \A X \in CorruptManaged : CountOf(ManagedList, X) = 0
    /\ \A X \in Names :
          ManifestAt(mods, ext[<<get_extensions_dir(cfg), X>>]) = "corrupt" =>
             CountOf(list_mods(mods, roots, ext, cfg).external, X) = 0

\* C16 as stated: the corrupt folder is omitted and both lists are what they
\* would be without it.
C16_CorruptIgnored_Original ==
    /\ CorruptOmitted
    /\ \A X \in CorruptManaged :
          list_mods(ModsWithout(X), roots, ext, cfg)
             = list_mods(mods, roots, ext, cfg)
    /\ \A cell \in CorruptExternal :
          list_mods(mods, roots, ExtWithout(cell), cfg)
             = list_mods(mods, roots, ext, cfg)

\* C16: a manifest that does not parse never fails a listing: the folder
\* with it is omitted from its list, and every record of a folder of another
\* name, whose entry in the extensions directory is not a symlink to the
\* corrupt folder, is what it would be if the corrupt folder were not there.
\* Under the corrupt folder's own name the other root is still affected: a
\* corrupt managed/X hides external/X from the external list, and a corrupt
\* external/X makes the managed record of X installed.
C16_CorruptIgnored ==
    /\ CorruptOmitted
    /\ \A X \in CorruptManaged :
          /\ NotNamed(list_mods(ModsWithout(X), roots, ext, cfg).managed,
                      {X} \cup LinkedTo(X))
                = NotNamed(ManagedList, {X} \cup LinkedTo(X))
          /\ Others(list_mods(ModsWithout(X), roots, ext, cfg).external, X)
                = Others(list_mods(mods, roots, ext, cfg).external, X)
    /\ \A cell \in CorruptExternal :
          /\ Others(list_mods(mods, roots, ExtWithout(cell), cfg).managed, cell[2])
                = Others(ManagedList, cell[2])
          /\ Others(list_mods(mods, roots, ExtWithout(cell), cfg).external, cell[2])
                = Others(list_mods(mods, roots, ext, cfg).external, cell[2])

\* A corrupt managed folder next to a valid one that is installed: only the
\* valid one is listed.
C16_Witness ==
    \E X, Y \in Names :
       /\ mods[X] = "corrupt" /\ mods[Y] = "valid"
       /\ CountOf(ManagedList, X) = 0
       /\ CountOf(ManagedList, Y) = 1
       /\ last = [op |-> "install", name |-> Y, res |-> "success"]

(* ------------------------------ C18 ------------------------------------ *)

ExternalList == list_mods(mods, roots, ext, cfg).external

\* C18: the two lists are disjoint and the external list obeys the exclusion
\* rules: no external record carries the name of a directory under the
\* managed root, none is a symlink that resolves to a direct child of the
\* managed root (under whatever name), and every external record has
\* is_managed false and is_installed true.
C18_ListsDisjoint ==
    \A i \in 1..Len(ExternalList) :
       LET r == ExternalList[i]
       IN  /\ CountOf(ManagedList, r.folder_name) = 0
           /\ mods[r.folder_name] = "absent"
           /\ ~ResolvesIntoMods(ext[ExtCell(cfg, r.folder_name)])
           /\ r.is_managed = FALSE
           /\ r.is_installed = TRUE

\* external/Y is a symlink to managed/X under another name: X is in the
\* managed list and Y is not in the external list.
C18_Witness ==
    \E X, Y \in Names :
       /\ X # Y
       /\ mods[X] = "valid" /\ mods[Y] = "absent"
       /\ ext[ExtCell(cfg, Y)] = Link(X)
       /\ get_extensions_dir(cfg) \in roots
       /\ CountOf(ExternalList, Y) = 0
       /\ CountOf(ManagedList, X) = 1

(* ------------------------------ C19 ------------------------------------ *)

\* The step just taken removed or replaced the entry at the cell.
EntryLost(cell) == ext[cell] # NoEntry /\ ext'[cell] # ext[cell]

\* C19 as stated: a symlink at external/X is removed only if its target is
\* managed/X; a foreign symlink there is never removed.
C19_OnlyOwnLinksRemoved_Original ==
    [][\A cell \in Cells :
          EntryLost(cell) => ext[cell] = Link(cell[2])]_vars

\* C19: install, uninstall and delete never remove or replace a real
\* directory of the extensions directory.  The only entry they remove is a
\* symlink at external/X, by uninstall(X) or delete(X), and they remove it
\* whatever it points to: a foreign symlink at external/X to an existing
\* folder outside the managed root is removed by a successful uninstall(X).
C19_OnlyOwnLinksRemoved ==
    [][/\ \A cell \in Cells :
             EntryLost(cell) =>
                /\ is_symlink(ext[cell])
                /\ ext'[cell] = NoEntry
                /\ cell[1] = get_extensions_dir(cfg)
                /\ last'.op \in {"uninstall", "delete"}
                /\ last'.name = cell[2]
       /\ \A X \in Names :
             (Called("uninstall", X) /\ last'.res = "success") =>
                ext'[ExtCell(cfg, X)] = NoEntry]_vars

\* uninstall(X) succeeded although there is no managed/X: the symlink it
\* removed did not point to managed/X.
C19_Witness ==
    \E X \in Names :
       /\ last = [op |-> "uninstall", name |-> X, res |-> "success"]
       /\ mods[X] = "absent"
       /\ ext[ExtCell(cfg, X)] = NoEntry

====
